---- MODULE Spec2Model ----
(***************************************************************************)
(* BrewTools calculation engine (brew_tools/calculator.py) and grain       *)
(* reference table (brew_tools/grains.py).                                 *)
(*                                                                         *)
(* Every function of the engine is pure.  The model is a caller that, from *)
(* the idle state, calls one function with inputs drawn from small sets,   *)
(* records the call and what it returned or raised, and then returns to    *)
(* the idle state.                                                         *)
(*                                                                         *)
(* Numbers.  A Python number is a record [type, n, d] whose numeric value  *)
(* is the exact rational n/d (d > 0); type is "int", "float" or "Decimal", *)
(* and "str" stands for a non-numeric argument.  A Decimal that            *)
(* to_decimal returns keeps d = 10^places, i.e. the exponent of the        *)
(* Decimal.  A float is the exact binary value Decimal(float) sees, so the *)
(* float inputs of the model are dyadic rationals (k/16); decimal literals *)
(* such as 0.67 are given as Decimals.                                     *)
(*                                                                         *)
(* Decimal arithmetic runs under the default context of the decimal        *)
(* module: 28 significant digits.  Sums, differences and products of the   *)
(* model's inputs have far fewer digits, so the context does not round     *)
(* them; a quotient is rounded to 28 digits before quantize rounds it to 3 *)
(* places, which for operands below 10^9 cannot move it across a rounding  *)
(* boundary, so the model keeps the exact quotient.  The one place where   *)
(* the context decides the outcome for small inputs is quantize itself,    *)
(* which rejects a result of more than Prec digits.                        *)
(***************************************************************************)
EXTENDS Integers, Sequences, FiniteSets, TLC

VARIABLES pc, op, args, result, max_gravities

vars == <<pc, op, args, result, max_gravities>>

(***************************************************************************)
(* Bounds of the input sets.                                               *)
(***************************************************************************)
MaxInt == 2
MaxSixteenths == 40
MaxPlaces == 3
MaxRecipeLen == 2
MaxBillLen == 3

(***************************************************************************)
(* Program constants.                                                      *)
(***************************************************************************)
DefaultPlaces == 3
Prec == 28

(***************************************************************************)
(* Integer and rational helpers behind the Decimal type.                   *)
(***************************************************************************)
Abs(x) == IF x < 0 THEN -x ELSE x

Sign(x) == IF x < 0 THEN -1 ELSE IF x > 0 THEN 1 ELSE 0

RECURSIVE Pow10(_)
Pow10(k) == IF k <= 0 THEN 1 ELSE 10 * Pow10(k - 1)

RECURSIVE GCD(_, _)
GCD(a, b) == IF b = 0 THEN a ELSE GCD(b, a % b)

Num(t, n, d) == [type |-> t, n |-> n, d |-> d]

PyInt(k) == Num("int", k, 1)

Dec(n, d) == Num("Decimal", n, d)

\* A Decimal of value n/d in lowest terms.
Reduced(n, d) ==
    LET g == GCD(Abs(n), d) IN
    IF n = 0 THEN Dec(0, 1) ELSE Dec(n \div g, d \div g)

\* Decimal(x): the exact value of an int, a float or a Decimal.
Decimal(x) == Dec(x.n, x.d)

DecAdd(a, b) == Reduced(a.n * b.d + b.n * a.d, a.d * b.d)

DecSub(a, b) == Reduced(a.n * b.d - b.n * a.d, a.d * b.d)

DecMul(a, b) ==
    LET g1 == GCD(Abs(a.n), b.d)
        g2 == GCD(Abs(b.n), a.d)
    IN  IF a.n = 0 \/ b.n = 0 THEN Dec(0, 1)
        ELSE Reduced((a.n \div g1) * (b.n \div g2), (a.d \div g2) * (b.d \div g1))

\* a / b for b # 0.
DecQuot(a, b) == DecMul(a, Dec(Sign(b.n) * b.d, Abs(b.n)))

\* int(x): truncation toward zero.
Trunc(x) == Sign(x.n) * (Abs(x.n) \div x.d)

\* Decimal.adjusted() of a nonzero value a/d: the exponent of its leading digit.
RECURSIVE Adjusted(_, _)
Adjusted(a, d) ==
    IF a >= 10 * d THEN 1 + Adjusted(a, 10 * d)
    ELSE IF a < d THEN Adjusted(10 * a, d) - 1
    ELSE 0

(***************************************************************************)
(* Outcomes of a call: a returned value, or the exception raised.          *)
(***************************************************************************)
NoVal == [type |-> "none"]

Ok(v) == [err |-> "none", val |-> v]

Raise(e) == [err |-> e, val |-> NoVal]

IsOk(r) == r.err = "none"

isNumber(x) == x.type \in {"int", "float", "Decimal"}

\* a * b, a / b of Python numbers.  Decimal takes an int operand but no float.
PyMul(a, b) ==
    IF a.type = "Decimal" \/ b.type = "Decimal"
    THEN IF a.type = "float" \/ b.type = "float"
         THEN Raise("TypeError")
         ELSE Ok(DecMul(a, b))
    ELSE LET p == DecMul(a, b) IN
         Ok(Num(IF a.type = "float" \/ b.type = "float" THEN "float" ELSE "int", p.n, p.d))

\* Decimal / Decimal: x/0 raises DivisionByZero, 0/0 raises InvalidOperation
\* (DivisionUndefined).
DecDiv(a, b) ==
    IF b.n = 0
    THEN IF a.n = 0 THEN Raise("InvalidOperation") ELSE Raise("DivisionByZero")
    ELSE Ok(DecQuot(a, b))

(***************************************************************************)
(* to_decimal                                                              *)
(***************************************************************************)
\* quantize with ROUND_HALF_EVEN (the rounding of the default context) in
\* place of ROUND_HALF_UP: a tie goes to the even neighbour.
quantize_half_even(value, places) ==
    IF value.n = 0 THEN Ok(Dec(0, Pow10(places)))
    ELSE IF Adjusted(Abs(value.n), value.d) + places + 1 > Prec
    THEN Raise("InvalidOperation")
    ELSE LET g == GCD(Pow10(places), value.d)
             a == Abs(value.n) * (Pow10(places) \div g)
             d == value.d \div g
             q == a \div d
             r == a % d
             m == IF 2 * r > d THEN q + 1
                  ELSE IF 2 * r = d /\ q % 2 = 1 THEN q + 1 ELSE q
         IN  Ok(Dec(Sign(value.n) * m, Pow10(places)))

\* quantize that takes the discarded part for at least one half even when
\* nothing is discarded: the magnitude always goes up by one unit.
quantize_always_up(value, places) ==
    IF value.n = 0 THEN Ok(Dec(0, Pow10(places)))
    ELSE IF Adjusted(Abs(value.n), value.d) + places + 1 > Prec
    THEN Raise("InvalidOperation")
    ELSE LET g == GCD(Pow10(places), value.d)
             a == Abs(value.n) * (Pow10(places) \div g)
             d == value.d \div g
             q == a \div d
             r == a % d
             m == IF 2 * r >= 0 THEN q + 1 ELSE q
         IN  Ok(Dec(Sign(value.n) * m, Pow10(places)))

\* value.quantize(Decimal(precision_format), rounding=ROUND_HALF_UP): round
\* the magnitude to `places` fractional digits, a discarded part of at least
\* one half rounding it up.  Zero is returned as is; a result that needs more
\* than Prec digits is an InvalidOperation.  The magnitude |n|/d * 10^places
\* is the fraction a/d below, with the factors common to 10^places and
\* value.d cancelled.
quantize(value, places) ==
    IF value.n = 0 THEN Ok(Dec(0, Pow10(places)))
    ELSE IF Adjusted(Abs(value.n), value.d) + places + 1 > Prec
    THEN Raise("InvalidOperation")
    ELSE LET g == GCD(Pow10(places), value.d)
             a == Abs(value.n) * (Pow10(places) \div g)
             d == value.d \div g
             q == a \div d
             r == a % d
             m == IF 2 * r >= d THEN q + 1 ELSE q
         IN  Ok(Dec(Sign(value.n) * m, Pow10(places)))

to_decimal(value, decimal_places) ==
    IF ~isNumber(value) THEN Raise("TypeError")
    ELSE IF decimal_places.type # "int" THEN Raise("TypeError")
    ELSE IF decimal_places.n < 0 THEN Raise("ValueError")
    ELSE quantize(Decimal(value), decimal_places.n)

(***************************************************************************)
(* Conversions                                                             *)
(***************************************************************************)
\* convert_sg_to_ppg without the to_decimal of its argument: the cast alone
\* decides the result, and cuts where to_decimal would have rounded.
convert_sg_to_ppg_unnormalized(gravity) ==
    IF ~isNumber(gravity) THEN Raise("TypeError")
    ELSE Ok(PyInt(Trunc(DecMul(DecSub(Decimal(gravity), PyInt(1)), PyInt(1000)))))

convert_sg_to_ppg(gravity) ==
    LET g == to_decimal(gravity, PyInt(DefaultPlaces)) IN
    IF ~IsOk(g) THEN g
    ELSE Ok(PyInt(Trunc(DecMul(DecSub(g.val, PyInt(1)), PyInt(1000)))))

\* convert_lbs_to_lbs_ounces with the pounds rounded to the nearest integer
\* in place of int(lbs).
convert_lbs_rounded_pounds(lbs) ==
    LET p == quantize(Decimal(lbs), 0)
        pounds == p.val.n
        ounces == to_decimal(DecMul(DecSub(Decimal(lbs), PyInt(pounds)), PyInt(16)), PyInt(1))
    IN  IF ~IsOk(ounces) THEN ounces
        ELSE Ok([lbs |-> pounds, oz |-> ounces.val])

\* convert_lbs_to_lbs_ounces with 16.0 ounces carried into the pounds.
convert_lbs_with_carry(lbs) ==
    LET pounds == Trunc(lbs)
        ounces == to_decimal(DecMul(DecSub(Decimal(lbs), PyInt(pounds)), PyInt(16)), PyInt(1))
    IN  IF ~IsOk(ounces) THEN ounces
        ELSE IF ounces.val.n = 16 * ounces.val.d
        THEN Ok([lbs |-> pounds + 1, oz |-> Dec(0, 10)])
        ELSE Ok([lbs |-> pounds, oz |-> ounces.val])

\* The pair (pounds, ounces) is the record [lbs, oz].
convert_lbs_to_lbs_ounces(lbs) ==
    LET pounds == Trunc(lbs)
        ounces == to_decimal(DecMul(DecSub(Decimal(lbs), PyInt(pounds)), PyInt(16)), PyInt(1))
    IN  IF ~IsOk(ounces) THEN ounces
        ELSE Ok([lbs |-> pounds, oz |-> ounces.val])

(***************************************************************************)
(* grains.max_gravities: grain name -> maximum gravity, in thousandths.    *)
(* The binary float nearest k/1000 has the same 3-place decimal as k/1000, *)
(* which is all the engine reads of it (convert_sg_to_ppg).                *)
(***************************************************************************)
GrainTable == {
    <<"American Black Barley", 1025>>,
    <<"American Black Patent", 1026>>,
    <<"American Chocolate", 1034>>,
    <<"American Crystal 10L", 1034>>,
    <<"American Crystal 20L", 1034>>,
    <<"American Crystal 30L", 1034>>,
    <<"American Crystal 40L", 1034>>,
    <<"American Crystal 60L", 1034>>,
    <<"American Crystal 80L", 1034>>,
    <<"American Crystal 90L", 1034>>,
    <<"American Crystal 120L", 1034>>,
    <<"American Dextrin", 1033>>,
    <<"American Munich", 1034>>,
    <<"American Pale (2-Row)", 1037>>,
    <<"American Pale (6-Row)", 1035>>,
    <<"American Roasted Barley", 1025>>,
    <<"American Special Roast", 1035>>,
    <<"American Victory", 1034>>,
    <<"American Vienna", 1035>>,
    <<"American Wheat", 1038>>,
    <<"American White Wheat", 1037>>,
    <<"Belgian Aromatic", 1036>>,
    <<"Belgian Pale Ale", 1038>>,
    <<"Belgian Biscuit", 1035>>,
    <<"Belgian Candy Sugar", 1036>>,
    <<"Belgian Caramel Pils", 1030>>,
    <<"Belgian Caramunich", 1033>>,
    <<"Belgian Caravienne", 1034>>,
    <<"Belgian Chocolate", 1033>>,
    <<"Belgian De-Bittered Black", 1030>>,
    <<"Belgian Pale", 1038>>,
    <<"Belgian Pilsen", 1037>>,
    <<"Belgian Roasted Wheat", 1036>>,
    <<"Belgian Special B", 1030>>,
    <<"British Amber Malt 35L", 1032>>,
    <<"British Amber Malt 65L", 1032>>,
    <<"British Black Patent", 1026>>,
    <<"British Brown", 1032>>,
    <<"British Cara-Pils Dextrin", 1033>>,
    <<"British Caramalt", 0>>,
    <<"British Chocolate", 1034>>,
    <<"British Crystal", 1034>>,
    <<"British Dark Crystal", 1034>>,
    <<"British Lager", 1038>>,
    <<"British Maris Otter Pale", 1038>>,
    <<"British Mild Ale", 1037>>,
    <<"British Oat", 1034>>,
    <<"British Pale", 1038>>,
    <<"British Pale Chocolate", 1034>>,
    <<"British Peat Smoked", 1034>>,
    <<"British Roasted Barley", 1025>>,
    <<"British Toasted Pale", 1038>>,
    <<"British Torrified Wheat", 1036>>,
    <<"British Wheat", 1038>>,
    <<"Brown Sugar", 1046>>,
    <<"Brown Sugar (Dark)", 1046>>,
    <<"Candi Sugar (Amber)", 1036>>,
    <<"Candi Sugar (Dark)", 1036>>,
    <<"Corn Sugar", 1036>>,
    <<"Demerara Sugar", 1041>>,
    <<"Dextrose (Glucose)", 1037>>,
    <<"Dry Malt Extract", 1044>>,
    <<"Flaked Barley", 1032>>,
    <<"Flaked Maize", 1037>>,
    <<"Flaked Oats", 1033>>,
    <<"Flaked Rye", 1036>>,
    <<"Flaked Wheat", 1036>>,
    <<"Franco-Belges Kiln Coffee", 0>>,
    <<"Gambrinus Honey Malt", 1034>>,
    <<"German Aciduated (Sauer)", 1033>>,
    <<"German CaraWheat", 1035>>,
    <<"German CaraAmber", 1033>>,
    <<"German CaraAroma", 1034>>,
    <<"German Carafa I", 1038>>,
    <<"German Carafa II", 1038>>,
    <<"German Carafa III", 1038>>,
    <<"German CaraFoam", 1033>>,
    <<"German CaraHell", 1034>>,
    <<"German CaraMunich I", 1034>>,
    <<"German CaraMunich II", 1034>>,
    <<"German CaraMunich III", 1034>>,
    <<"German CaraRed", 1033>>,
    <<"German Chocolate Rye", 1030>>,
    <<"German Chocolate Wheat", 1038>>,
    <<"German Dark Munich", 1034>>,
    <<"German Dark Wheat", 1039>>,
    <<"German Kolsch", 1034>>,
    <<"German Light Munich", 1034>>,
    <<"German Light Wheat", 1039>>,
    <<"German Melanoidin", 1033>>,
    <<"German Rauch Smoked", 1037>>,
    <<"German Rye", 1029>>,
    <<"German Vienna", 1035>>,
    <<"Grits", 1037>>,
    <<"Honey", 1032>>,
    <<"Invert Sugar", 1046>>,
    <<"Lactose", 1043>>,
    <<"Liquid Malt Extract", 1036>>,
    <<"Lyle's Golden Syrup", 1036>>,
    <<"Maple Sap", 1009>>,
    <<"Maple Syrup", 1030>>,
    <<"Molasses", 1036>>,
    <<"Rice Solids", 1040>>,
    <<"Scotmalt Golden Promise", 1038>>,
    <<"Treacle", 1036>>,
    <<"White Table Sugar", 1046>>
}

GrainNames == {p[1] : p \in GrainTable}

max_gravities_dict == [g \in GrainNames |-> (CHOOSE p \in GrainTable : p[1] = g)[2]]

(***************************************************************************)
(* Gravity points, yield and grain quantities                              *)
(***************************************************************************)
\* A call that raises ends every function it was made from: each step below
\* is taken only if the steps before it returned.
calc_total_gravity_points(specific_gravity, gallons) ==
    LET ppg == convert_sg_to_ppg(specific_gravity)
        p == PyMul(ppg.val, gallons)
    IN  IF ~IsOk(ppg) THEN ppg
        ELSE IF ~IsOk(p) THEN p
        ELSE to_decimal(p.val, PyInt(DefaultPlaces))

calc_expected_yield(max_yield, efficiency) ==
    LET p == PyMul(max_yield, efficiency) IN
    IF ~IsOk(p) THEN p
    ELSE to_decimal(p.val, PyInt(DefaultPlaces))

calc_grain_qty(total_gravity_points, grain_ratio, expected_yield) ==
    LET p == PyMul(total_gravity_points, Decimal(grain_ratio))
        q == DecDiv(p.val, Decimal(expected_yield))
    IN  IF ~IsOk(p) THEN p
        ELSE IF ~IsOk(q) THEN q
        ELSE to_decimal(q.val, PyInt(DefaultPlaces))

\* grains.max_gravities[grain]: a KeyError for a name that is no key.
lookup(table, grain) ==
    IF grain \in DOMAIN table
    THEN Ok(Num("float", table[grain], 1000))
    ELSE Raise("KeyError")

\* One element of the generator of calc_grain_bill: (grain, (pounds, ounces)).
grain_bill_entry(table, total_gravity_points, spec) ==
    LET sg == lookup(table, spec.grain)
        ppg == convert_sg_to_ppg(sg.val)
        ey == calc_expected_yield(ppg.val, spec.efficiency)
        qty == calc_grain_qty(total_gravity_points, spec.ratio, ey.val)
        w == convert_lbs_to_lbs_ounces(qty.val)
    IN  IF ~IsOk(sg) THEN sg
        ELSE IF ~IsOk(ppg) THEN ppg
        ELSE IF ~IsOk(ey) THEN ey
        ELSE IF ~IsOk(qty) THEN qty
        ELSE IF ~IsOk(w) THEN w
        ELSE Ok([grain |-> spec.grain, weight |-> w.val])

\* The elements collected in reverse order.
RECURSIVE grain_bill_entries_reversed(_, _, _, _)
grain_bill_entries_reversed(table, total_gravity_points, grain_list, acc) ==
    IF grain_list = <<>> THEN Ok(acc)
    ELSE LET e == grain_bill_entry(table, total_gravity_points, Head(grain_list)) IN
         IF ~IsOk(e) THEN e
         ELSE grain_bill_entries_reversed(table, total_gravity_points, Tail(grain_list),
                                          <<e.val>> \o acc)

\* An exception in an element swallowed: the elements produced before it are
\* returned.
RECURSIVE grain_bill_entries_partial(_, _, _, _)
grain_bill_entries_partial(table, total_gravity_points, grain_list, acc) ==
    IF grain_list = <<>> THEN Ok(acc)
    ELSE LET e == grain_bill_entry(table, total_gravity_points, Head(grain_list)) IN
         IF ~IsOk(e) THEN Ok(acc)
         ELSE grain_bill_entries_partial(table, total_gravity_points, Tail(grain_list),
                                         Append(acc, e.val))

\* tuple(... for (grain, ratio, efficiency) in grain_list): the elements are
\* produced in the order of grain_list; an exception in one of them ends the
\* call and the elements produced so far are dropped with the generator.
RECURSIVE grain_bill_entries(_, _, _, _)
grain_bill_entries(table, total_gravity_points, grain_list, acc) ==
    IF grain_list = <<>> THEN Ok(acc)
    ELSE LET e == grain_bill_entry(table, total_gravity_points, Head(grain_list)) IN
         IF ~IsOk(e) THEN e
         ELSE grain_bill_entries(table, total_gravity_points, Tail(grain_list),
                                 Append(acc, e.val))

calc_grain_bill(table, target_gravity, volume, grain_list) ==
    LET tgp == calc_total_gravity_points(target_gravity, volume) IN
    IF ~IsOk(tgp) THEN tgp
    ELSE grain_bill_entries(table, tgp.val, grain_list, <<>>)

\* The running total rounded to 3 places after every addition.
RECURSIVE sum_weights_rounded(_, _)
sum_weights_rounded(grain_bill, total_weight) ==
    IF grain_bill = <<>> THEN total_weight
    ELSE sum_weights_rounded(
             Tail(grain_bill),
             quantize(DecAdd(total_weight, Decimal(Head(grain_bill).weight)), DefaultPlaces).val)

RECURSIVE sum_weights(_, _)
sum_weights(grain_bill, total_weight) ==
    IF grain_bill = <<>> THEN total_weight
    ELSE sum_weights(Tail(grain_bill), DecAdd(total_weight, Decimal(Head(grain_bill).weight)))

calc_total_grain_weight(grain_bill) ==
    to_decimal(sum_weights(grain_bill, Dec(0, 1)), PyInt(DefaultPlaces))

(***************************************************************************)
(* Mash temperatures                                                       *)
(***************************************************************************)
thermodynamic_constant == Dec(2, 10)

calc_strike_temp(water_grist_ratio, initial_temp, target_temp) ==
    LET q == DecDiv(thermodynamic_constant, Decimal(water_grist_ratio)) IN
    IF ~IsOk(q) THEN q
    ELSE to_decimal(
             DecAdd(DecMul(q.val, DecSub(Decimal(target_temp), Decimal(initial_temp))),
                    Decimal(target_temp)),
             PyInt(DefaultPlaces))

calc_infusion_volume(initial_temp, target_temp, infusion_temp, water_in_mash, grain_in_mash) ==
    LET q == DecDiv(DecMul(DecSub(Decimal(target_temp), Decimal(initial_temp)),
                           DecAdd(DecMul(thermodynamic_constant, Decimal(grain_in_mash)),
                                  Decimal(water_in_mash))),
                    DecSub(Decimal(infusion_temp), Decimal(target_temp)))
    IN  IF ~IsOk(q) THEN q
        ELSE to_decimal(q.val, PyInt(DefaultPlaces))

(***************************************************************************)
(* Water volumes                                                           *)
(***************************************************************************)
calc_grain_absorption(grain_weight, absorption_rate) ==
    to_decimal(DecMul(Decimal(grain_weight), Decimal(absorption_rate)), PyInt(DefaultPlaces))

calc_evaporation_loss(boil_length_minutes, evaporation_gph) ==
    to_decimal(DecMul(DecQuot(Decimal(boil_length_minutes), PyInt(60)), Decimal(evaporation_gph)),
               PyInt(DefaultPlaces))

\* Decimal(.04) is the binary float nearest 0.04, which exceeds 0.04 by less
\* than 10^-18.  The excess pushes a product the way ROUND_HALF_UP breaks a
\* tie (away from zero), and is too small to carry a product of the model's
\* volumes past a rounding boundary, so the rate is taken as 4/100.
constant_shrinkage_rate == Dec(4, 100)

calc_shrinkage_loss(initial_volume) ==
    to_decimal(DecMul(Decimal(initial_volume), constant_shrinkage_rate), PyInt(DefaultPlaces))

\* calc_required_water_volume with the shrinkage taken last, on the volume
\* that already holds the other losses.
calc_required_water_volume_late_shrinkage(target_volume, grain_weight, absorption_rate, equipment_losses, boil_length_minutes, evaporation_gph, trub_loss) ==
    LET req0 == DecAdd(Decimal(target_volume), Decimal(trub_loss))
        e == calc_evaporation_loss(boil_length_minutes, evaporation_gph)
        req1 == DecAdd(req0, e.val)
        req2 == DecAdd(req1, Decimal(equipment_losses))
        a == calc_grain_absorption(grain_weight, absorption_rate)
        req3 == DecAdd(req2, a.val)
        s == calc_shrinkage_loss(req3)
        req4 == DecAdd(req3, s.val)
    IN  IF ~IsOk(e) THEN e
        ELSE IF ~IsOk(a) THEN a
        ELSE IF ~IsOk(s) THEN s
        ELSE to_decimal(req4, PyInt(DefaultPlaces))

calc_required_water_volume(target_volume, grain_weight, absorption_rate, equipment_losses, boil_length_minutes, evaporation_gph, trub_loss) ==
    LET req0 == DecAdd(Decimal(target_volume), Decimal(trub_loss))
        s == calc_shrinkage_loss(req0)
        req1 == DecAdd(req0, s.val)
        e == calc_evaporation_loss(boil_length_minutes, evaporation_gph)
        req2 == DecAdd(req1, e.val)
        req3 == DecAdd(req2, Decimal(equipment_losses))
        a == calc_grain_absorption(grain_weight, absorption_rate)
        req4 == DecAdd(req3, a.val)
    IN  IF ~IsOk(s) THEN s
        ELSE IF ~IsOk(e) THEN e
        ELSE IF ~IsOk(a) THEN a
        ELSE to_decimal(req4, PyInt(DefaultPlaces))

(***************************************************************************)
(* Inputs of the calls                                                     *)
(***************************************************************************)
NotANumber == Num("str", 0, 1)

Ints == {PyInt(k) : k \in -MaxInt..MaxInt}

Floats == {Num("float", k, 16) : k \in -MaxSixteenths..MaxSixteenths}

ValueInputs ==
    Ints \cup Floats \cup {NotANumber}
    \cup {Dec(k, 10000) : k \in {-15, -5, -4, 4, 5, 6, 15, 9876, 10010, 14995}}
    \cup {Dec(9912345, 100000), Dec(12, 1)}

\* decimal_places: ints (negative ones too), the context precision, a float
\* and a string.
PlacesInputs ==
    {PyInt(k) : k \in -1..MaxPlaces} \cup {PyInt(Prec), Num("float", 6, 5), NotANumber}

\* Beyond MaxPlaces, to_decimal is called only with values of magnitude at
\* least 1, which quantize rejects; a smaller value has a result, whose
\* coefficient of up to 28 digits exceeds the 32-bit integers of TLC.
PlacesFor(value) ==
    IF isNumber(value) /\ Abs(value.n) < value.d
    THEN {p \in PlacesInputs : p.type # "int" \/ p.n <= MaxPlaces}
    ELSE PlacesInputs

GravityInputs ==
    {Dec(k, 10000) : k \in 9980..10620} \cup Floats
    \cup {Dec(11230, 10000), Dec(5000, 10000), PyInt(1), PyInt(0)}

LbsInputs ==
    {Dec(k, 1000) : k \in -2000..3000} \cup Floats \cup Ints
    \cup {Dec(996875, 1000000), Dec(996874, 1000000), Dec(8500, 1000), Dec(1233, 100)}

PointsInputs == {PyInt(0), PyInt(200), PyInt(300), Dec(0, 1000), Dec(286000, 1000)}

RatioInputs == {PyInt(0), PyInt(1), Num("float", 3, 4), Dec(67, 100), Dec(33, 100)}

YieldInputs == {PyInt(0), Dec(0, 1000), PyInt(25), PyInt(35), Dec(25840, 1000)}

WaterGristInputs == {PyInt(0), Dec(0, 10), PyInt(1), PyInt(2), Num("float", 5, 4)}

TempInputs == {PyInt(0), PyInt(70), PyInt(104), PyInt(140), PyInt(152), PyInt(158), PyInt(210)}

MashInputs == {PyInt(0), PyInt(8), Dec(129, 10)}

\* Recipes: names of the table (one of them with the gravity 0.00) and one
\* name that is not in it.
RecipeNames == {"American Wheat", "American Pale (2-Row)", "British Caramalt", "Nope"}

SpecInputs ==
    [grain : RecipeNames,
     ratio : {Dec(67, 100), Num("float", 1, 4)},
     efficiency : {Dec(68, 100), PyInt(0)}]

SeqsUpTo(S, n) == UNION {[1..k -> S] : k \in 0..n}

RecipeInputs == SeqsUpTo(SpecInputs, MaxRecipeLen)

TargetGravityInputs == {Dec(1052, 1000), Dec(10505, 10000)}

VolumeInputs == {Num("float", 11, 2), PyInt(5)}

WeightInputs ==
    {Dec(11, 10), Dec(22, 10), Dec(11234, 10000), Dec(22345, 10000), Dec(4, 10000),
     Num("float", 1, 16)}

BillInputs ==
    {[i \in DOMAIN w |-> [grain |-> "grain", weight |-> w[i]]] :
        w \in SeqsUpTo(WeightInputs, MaxBillLen)}

VolumeLossInputs == {PyInt(0), Dec(125, 10000), Num("float", 11, 2)}

(***************************************************************************)
(* The caller                                                              *)
(***************************************************************************)
Init ==
    /\ pc = "idle"
    /\ op = "none"
    /\ args = <<>>
    /\ result = Ok(NoVal)
    /\ max_gravities = max_gravities_dict

Called(name, arguments, outcome) ==
    /\ pc' = "done"
    /\ op' = name
    /\ args' = arguments
    /\ result' = outcome
    /\ UNCHANGED max_gravities

Call_to_decimal ==
    /\ pc = "idle"
    /\ \E value \in ValueInputs : \E decimal_places \in PlacesFor(value) :
        Called("to_decimal", <<value, decimal_places>>, to_decimal(value, decimal_places))

Call_to_decimal_default ==
    /\ pc = "idle"
    /\ \E value \in ValueInputs :
        Called("to_decimal", <<value>>, to_decimal(value, PyInt(DefaultPlaces)))

\* The caller passes what to_decimal returned to to_decimal again, with the
\* same decimal_places.
Call_to_decimal_again ==
    /\ pc = "done"
    /\ op = "to_decimal"
    /\ IsOk(result)
    /\ LET decimal_places == IF Len(args) = 2 THEN args[2] ELSE PyInt(DefaultPlaces) IN
       Called("to_decimal", <<result.val, decimal_places>>,
              to_decimal(result.val, decimal_places))

Call_convert_sg_to_ppg ==
    /\ pc = "idle"
    /\ \E gravity \in GravityInputs :
        Called("convert_sg_to_ppg", <<gravity>>, convert_sg_to_ppg(gravity))

Call_convert_lbs_to_lbs_ounces ==
    /\ pc = "idle"
    /\ \E lbs \in LbsInputs :
        Called("convert_lbs_to_lbs_ounces", <<lbs>>, convert_lbs_to_lbs_ounces(lbs))

Call_calc_grain_qty ==
    /\ pc = "idle"
    /\ \E total_gravity_points \in PointsInputs, grain_ratio \in RatioInputs,
       expected_yield \in YieldInputs :
        Called("calc_grain_qty", <<total_gravity_points, grain_ratio, expected_yield>>,
               calc_grain_qty(total_gravity_points, grain_ratio, expected_yield))

Call_calc_grain_bill ==
    /\ pc = "idle"
    /\ \E target_gravity \in TargetGravityInputs, volume \in VolumeInputs,
       grain_list \in RecipeInputs :
        Called("calc_grain_bill", <<target_gravity, volume, grain_list>>,
               calc_grain_bill(max_gravities, target_gravity, volume, grain_list))

\* A recipe of one grain, for every grain of the table, with a target gravity
\* above 1.000, a volume above 0 and a ratio and an efficiency in (0, 1].
OneGrainSpecInputs ==
    [grain : GrainNames,
     ratio : {Dec(67, 100), Num("float", 1, 4), PyInt(1)},
     efficiency : {Dec(68, 100), PyInt(1), Dec(1, 100000)}]

Call_calc_grain_bill_one_grain ==
    /\ pc = "idle"
    /\ \E target_gravity \in TargetGravityInputs \cup {Dec(10004, 10000)},
          volume \in VolumeInputs, spec \in OneGrainSpecInputs :
           Called("calc_grain_bill", <<target_gravity, volume, <<spec>> >>,
                  calc_grain_bill(max_gravities, target_gravity, volume, <<spec>>))

Call_calc_total_grain_weight ==
    /\ pc = "idle"
    /\ \E grain_bill \in BillInputs :
        Called("calc_total_grain_weight", <<grain_bill>>, calc_total_grain_weight(grain_bill))

Call_calc_strike_temp ==
    /\ pc = "idle"
    /\ \E water_grist_ratio \in WaterGristInputs, initial_temp \in TempInputs,
       target_temp \in TempInputs :
        Called("calc_strike_temp", <<water_grist_ratio, initial_temp, target_temp>>,
               calc_strike_temp(water_grist_ratio, initial_temp, target_temp))

Call_calc_infusion_volume ==
    /\ pc = "idle"
    /\ \E initial_temp \in TempInputs, target_temp \in TempInputs, infusion_temp \in TempInputs,
       water_in_mash \in MashInputs, grain_in_mash \in MashInputs :
        Called("calc_infusion_volume",
               <<initial_temp, target_temp, infusion_temp, water_in_mash, grain_in_mash>>,
               calc_infusion_volume(initial_temp, target_temp, infusion_temp,
                                    water_in_mash, grain_in_mash))

Call_calc_required_water_volume ==
    /\ pc = "idle"
    /\ \E target_volume \in {PyInt(5), Num("float", 11, 2)},
       grain_weight \in {PyInt(0), Dec(10125, 1000)},
       absorption_rate \in {Dec(8, 100), Dec(2, 10)},
       equipment_losses \in {PyInt(0), Num("float", 1, 4)},
       boil_length_minutes \in {PyInt(60), PyInt(75), PyInt(0)},
       evaporation_gph \in {PyInt(1), Dec(125, 100)},
       trub_loss \in VolumeLossInputs :
        Called("calc_required_water_volume",
               <<target_volume, grain_weight, absorption_rate, equipment_losses,
                 boil_length_minutes, evaporation_gph, trub_loss>>,
               calc_required_water_volume(target_volume, grain_weight, absorption_rate,
                                          equipment_losses, boil_length_minutes,
                                          evaporation_gph, trub_loss))

\* The caller takes the outcome and is ready for the next call.
Return ==
    /\ pc = "done"
    /\ pc' = "idle"
    /\ op' = "none"
    /\ args' = <<>>
    /\ result' = Ok(NoVal)
    /\ UNCHANGED max_gravities

Next ==
    \/ Call_to_decimal
    \/ Call_to_decimal_default
    \/ Call_to_decimal_again
    \/ Call_convert_sg_to_ppg
    \/ Call_convert_lbs_to_lbs_ounces
    \/ Call_calc_grain_qty
    \/ Call_calc_grain_bill
    \/ Call_calc_grain_bill_one_grain
    \/ Call_calc_total_grain_weight
    \/ Call_calc_strike_temp
    \/ Call_calc_infusion_volume
    \/ Call_calc_required_water_volume
    \/ Return

Spec == Init /\ [][Next]_vars

(***************************************************************************)
(* Properties                                                              *)
(***************************************************************************)
\* c / 10^places is the number xn/xd rounded half-up to `places` fractional
\* digits: no multiple of 10^-places is nearer to xn/xd, and when xn/xd lies
\* midway between two multiples, c / 10^places is the one of larger
\* magnitude.  (xn * P and c * D are the two numbers over the common
\* denominator D.)
IsRounding(xn, xd, places, c) ==
    LET g == GCD(Pow10(places), xd)
        P == Pow10(places) \div g
        D == xd \div g
        diff == Abs(xn * P - c * D)
    IN  /\ 2 * diff <= D
        /\ (2 * diff = D) => (Abs(c) * D > Abs(xn) * P)

\* r is the Decimal with `places` fractional digits that is x rounded half-up.
IsNormalized(x, places, r) ==
    /\ r.type = "Decimal"
    /\ r.d = Pow10(places)
    /\ IsRounding(x.n, x.d, places, r.n)

\* The weight the recipe element `spec` is to get, as the composition of the
\* engine's functions.
EntryWeight(table, gravity, volume, spec) ==
    LET tgp == calc_total_gravity_points(gravity, volume)
        ppg == convert_sg_to_ppg(Num("float", table[spec.grain], 1000))
        ey == calc_expected_yield(ppg.val, spec.efficiency)
        qty == calc_grain_qty(tgp.val, spec.ratio, ey.val)
    IN  IF ~IsOk(tgp) THEN tgp
        ELSE IF ~IsOk(ppg) THEN ppg
        ELSE IF ~IsOk(ey) THEN ey
        ELSE IF ~IsOk(qty) THEN qty
        ELSE convert_lbs_to_lbs_ounces(qty.val)

KnownNames(recipe) == \A i \in DOMAIN recipe : recipe[i].grain \in DOMAIN max_gravities

\* C1: for a recipe whose names are all in the table, calc_grain_bill returns
\* one entry per recipe element, in the order of the recipe, the i-th entry
\* carrying the i-th name and the weight
\* convert_lbs_to_lbs_ounces(calc_grain_qty(calc_total_gravity_points(gravity,
\* volume), ratio_i, calc_expected_yield(convert_sg_to_ppg(max_gravities[name_i]),
\* efficiency_i))); it returns whenever each of these weights is defined, and
\* raises when one of them is not.
C1_GrainBillInRecipeOrder ==
    (op = "calc_grain_bill" /\ KnownNames(args[3])) =>
        LET recipe == args[3]
            w == [i \in DOMAIN recipe |->
                     EntryWeight(max_gravities, args[1], args[2], recipe[i])]
        IN  IF \A i \in DOMAIN recipe : IsOk(w[i])
            THEN /\ IsOk(result)
                 /\ Len(result.val) = Len(recipe)
                 /\ \A i \in DOMAIN recipe :
                        /\ result.val[i].grain = recipe[i].grain
                        /\ result.val[i].weight = w[i].val
            ELSE ~IsOk(result)

\* C1 witness: a bill of two entries for a recipe of two different grains.
C1_Witness ==
    /\ op = "calc_grain_bill"
    /\ IsOk(result)
    /\ Len(args[3]) = 2
    /\ args[3][1].grain = "American Wheat"
    /\ args[3][2].grain = "American Pale (2-Row)"
    /\ result.val[1].weight # result.val[2].weight

\* The first element of the recipe that does not compute: its name is not in
\* the table, or its weight is not defined.  0 when every element computes.
Computes(recipe, gravity, volume, i) ==
    /\ recipe[i].grain \in DOMAIN max_gravities
    /\ IsOk(EntryWeight(max_gravities, gravity, volume, recipe[i]))

FirstFailing(recipe, gravity, volume) ==
    IF \A i \in DOMAIN recipe : Computes(recipe, gravity, volume, i) THEN 0
    ELSE CHOOSE i \in DOMAIN recipe :
            /\ ~Computes(recipe, gravity, volume, i)
            /\ \A j \in 1..(i - 1) : Computes(recipe, gravity, volume, j)

\* C2 as stated: a recipe with a name that is not in the table, at whatever
\* position, makes calc_grain_bill raise KeyError, return nothing and leave
\* the table as it was.
C2_UnknownNameAlwaysKeyError ==
    (op = "calc_grain_bill" /\ ~KnownNames(args[3])) =>
        /\ result.err = "KeyError"
        /\ result.val = NoVal
        /\ max_gravities = max_gravities_dict

\* C2 amended: a recipe with a name that is not in the table makes
\* calc_grain_bill raise, return no entry and leave the table as it was; the
\* exception is that of the first recipe element that does not compute:
\* KeyError when that element is one whose name is not in the table, and the
\* exception of its weight (a zero expected yield) when it is an earlier one.
C2_UnknownNameFailsWhole ==
    (op = "calc_grain_bill" /\ ~KnownNames(args[3])) =>
        LET recipe == args[3]
            k == FirstFailing(recipe, args[1], args[2])
        IN  /\ ~IsOk(result)
            /\ result.val = NoVal
            /\ max_gravities = max_gravities_dict
            /\ result.err =
                  IF recipe[k].grain \notin DOMAIN max_gravities THEN "KeyError"
                  ELSE EntryWeight(max_gravities, args[1], args[2], recipe[k]).err

\* C2 witness: the unknown name comes second, after an element that computes.
C2_Witness ==
    /\ op = "calc_grain_bill"
    /\ Len(args[3]) = 2
    /\ Computes(args[3], args[1], args[2], 1)
    /\ args[3][2].grain = "Nope"
    /\ result = Raise("KeyError")

\* The decimal_places of a call of to_decimal: the default is 3.
PlacesOf(arguments) == IF Len(arguments) = 2 THEN arguments[2].n ELSE 3

\* C3: what to_decimal(value, places) returns is the multiple of 10^-places
\* nearest to value, a value midway between two multiples going to the one
\* of larger magnitude (0.5 -> 1, 1.25 -> 1.3), held with exactly `places`
\* fractional digits (none for places = 0); places is 3 when not given.
C3_RoundHalfUp ==
    (op = "to_decimal" /\ IsOk(result)) =>
        IsNormalized(args[1], PlacesOf(args), result.val)

\* C3 witness: 1.25 at one place is a tie and comes out as 1.3.
C3_Witness ==
    /\ op = "to_decimal"
    /\ args = <<Num("float", 20, 16), PyInt(1)>>
    /\ result = Ok(Dec(13, 10))

\* C4 as stated: to_decimal raises TypeError or ValueError, and returns no
\* value, when value is no number, or places is no int, or places is
\* negative; for every number and every int places >= 0 it does not raise.
C4_RaisesExactlyOnBadArguments ==
    (op = "to_decimal" /\ Len(args) = 2) =>
        IF ~isNumber(args[1]) \/ args[2].type # "int" \/ args[2].n < 0
        THEN result.err \in {"TypeError", "ValueError"} /\ result.val = NoVal
        ELSE IsOk(result)

\* C5 as stated: calc_grain_qty, calc_strike_temp and calc_infusion_volume
\* raise DivisionByZero, and return no value, whenever the denominator is
\* zero, whatever the other inputs (a zero numerator included).
C5_ZeroDenominatorDivisionByZero ==
    LET zero ==
          \/ op = "calc_grain_qty" /\ args[3].n = 0
          \/ op = "calc_strike_temp" /\ args[1].n = 0
          \/ op = "calc_infusion_volume" /\ args[3] = args[2]
    IN  zero => result = Raise("DivisionByZero")

\* C6 as stated: for pounds >= 0 the ounces of convert_lbs_to_lbs_ounces are
\* in [0, 16).
C6_OuncesBelowSixteen ==
    (op = "convert_lbs_to_lbs_ounces" /\ args[1].n >= 0) =>
        /\ IsOk(result)
        /\ result.val.oz.n >= 0
        /\ result.val.oz.n < 16 * result.val.oz.d

\* C6 amended: for pounds >= 0 the ounces of convert_lbs_to_lbs_ounces are in
\* the closed interval [0, 16], and are 16.0 exactly when the fraction of the
\* pounds is at least 0.996875 (15.95 ounces).
C6_OuncesAtMostSixteen ==
    (op = "convert_lbs_to_lbs_ounces" /\ args[1].n >= 0) =>
        LET lbs == args[1]
            oz == result.val.oz
            fraction == lbs.n - result.val.lbs * lbs.d
        IN  /\ IsOk(result)
            /\ oz.n >= 0
            /\ oz.n <= 16 * oz.d
            /\ (oz.n = 16 * oz.d) <=> (fraction * 320 >= 319 * lbs.d)

\* C6 witness: 0.997 pounds are 15.952 ounces, returned as 16.0.
C6_Witness ==
    /\ op = "convert_lbs_to_lbs_ounces"
    /\ args = <<Dec(997, 1000)>>
    /\ result = Ok([lbs |-> 0, oz |-> Dec(160, 10)])

\* C7: convert_lbs_to_lbs_ounces(lbs) returns (whole, ounces) where whole is
\* lbs with its fraction cut off (toward zero) and ounces is
\* (lbs - whole) * 16 rounded half-up to one place; there is no carry: ounces
\* that round to 16.0 stay with the same whole.
C7_TruncateNoCarry ==
    (op = "convert_lbs_to_lbs_ounces") =>
        LET lbs == args[1]
            whole == result.val.lbs
        IN  /\ IsOk(result)
            /\ Abs(whole) * lbs.d <= Abs(lbs.n)
            /\ Abs(lbs.n) < (Abs(whole) + 1) * lbs.d
            /\ whole * lbs.n >= 0
            /\ IsNormalized([n |-> (lbs.n - whole * lbs.d) * 16, d |-> lbs.d], 1,
                            result.val.oz)

\* C7 witness: 2.997 pounds come out as (2, 16.0), not as (3, 0.0).
C7_Witness ==
    /\ op = "convert_lbs_to_lbs_ounces"
    /\ args = <<Dec(2997, 1000)>>
    /\ result = Ok([lbs |-> 2, oz |-> Dec(160, 10)])

\* C8: convert_sg_to_ppg(g) is the int (g3 - 1) * 1000, where g3 is g rounded
\* half-up to 3 places (1.050 -> 50, 1.001 -> 1, 1.123 -> 123); the product
\* is whole, so the cast to int rounds nothing.
C8_PointsOfNormalizedGravity ==
    (op = "convert_sg_to_ppg") =>
        /\ IsOk(result)
        /\ result.val.type = "int"
        /\ result.val.d = 1
        /\ IsRounding(args[1].n, args[1].d, 3, result.val.n + 1000)

\* C8 witness: 1.0506 is normalized to 1.051 first, and gives 51.
C8_Witness ==
    /\ op = "convert_sg_to_ppg"
    /\ args = <<Dec(10506, 10000)>>
    /\ result = Ok(PyInt(51))

\* C9: calc_required_water_volume returns, rounded half-up to 3 places,
\* start + shrinkage + evaporation + equipment_losses + absorption, where
\* start = target_volume + trub_loss, shrinkage is calc_shrinkage_loss(start)
\* (4% of target + trub alone), evaporation is
\* calc_evaporation_loss(boil_length, rate), absorption is
\* calc_grain_absorption(grain_weight, rate), and each of the three is itself
\* rounded half-up to 3 places.
C9_SequentialAccumulation ==
    (op = "calc_required_water_volume") =>
        LET start == DecAdd(Decimal(args[1]), Decimal(args[7]))
            shrinkage == calc_shrinkage_loss(start).val
            evaporation == calc_evaporation_loss(args[5], args[6]).val
            absorption == calc_grain_absorption(args[2], args[3]).val
            total == DecAdd(DecAdd(DecAdd(DecAdd(start, shrinkage), evaporation),
                                   Decimal(args[4])), absorption)
        IN  /\ IsOk(result)
            /\ IsNormalized(DecMul(start, Dec(4, 100)), 3, shrinkage)
            /\ IsNormalized(DecMul(Dec(args[5].n, 60 * args[5].d), Decimal(args[6])), 3,
                            evaporation)
            /\ IsNormalized(DecMul(Decimal(args[2]), Decimal(args[3])), 3, absorption)
            /\ IsNormalized(total, 3, result.val)

\* C9 witness: 5.5 gal, 10.125 lb at 0.08 gal/lb, 0.25 gal of equipment
\* losses, 75 min at 1.25 gal/h and 0.0125 gal of trub need 8.357 gal.
C9_Witness ==
    /\ op = "calc_required_water_volume"
    /\ args = <<Num("float", 11, 2), Dec(10125, 1000), Dec(8, 100), Num("float", 1, 4),
                PyInt(75), Dec(125, 100), Dec(125, 10000)>>
    /\ result = Ok(Dec(8357, 1000))

\* The sum of the weights of a bill, added from its last entry to its first.
RECURSIVE WeightSum(_)
WeightSum(bill) ==
    IF bill = <<>> THEN Dec(0, 1)
    ELSE DecAdd(Decimal(bill[Len(bill)].weight), WeightSum(SubSeq(bill, 1, Len(bill) - 1)))

C11_NormalizeIdempotent ==
    [][(pc = "done" /\ op = "to_decimal" /\ pc' = "done" /\ op' = "to_decimal")
          => (result' = result)]_vars

\* C11 witness: 0.9876 gave 0.988, and 0.988 passed again gave 0.988.
C11_Witness ==
    /\ op = "to_decimal"
    /\ args = <<Dec(988, 1000), PyInt(3)>>
    /\ result = Ok(Dec(988, 1000))

\* x is in the interval (0, 1].
InUnitInterval(x) == x.n > 0 /\ x.n <= x.d

\* C12 as stated: for names of the table, a target gravity above 1.000, a
\* volume above 0 and ratios and efficiencies in (0, 1], calc_grain_bill
\* returns (no division by zero), and no entry has negative pounds or
\* negative ounces.
C12_TableGrainsGiveWeights ==
    (/\ op = "calc_grain_bill"
     /\ KnownNames(args[3])
     /\ args[1].n > args[1].d
     /\ args[2].n > 0
     /\ \A i \in DOMAIN args[3] :
            InUnitInterval(args[3][i].ratio) /\ InUnitInterval(args[3][i].efficiency))
    => /\ IsOk(result)
       /\ \A i \in DOMAIN result.val :
              result.val[i].weight.lbs >= 0 /\ result.val[i].weight.oz.n >= 0

====
